---- MODULE Spec2Model ----
(***************************************************************************)
(* The polling / deduplication / delivery pipeline of bot.py:              *)
(* tweet_checker_loop, check_tweets_for_user, notify_user_and_disable,     *)
(* track_toggle, setup_tracking and the user_data store.                   *)
(*                                                                         *)
(* A step of a pipeline run is the code between two awaits. The blocking   *)
(* requests.post of one candidate is a step of its own; it touches no      *)
(* shared state, so the finer grain adds no behaviour.                     *)
(***************************************************************************)
EXTENDS Integers, Sequences, FiniteSets, TLC

VARIABLES
    store,      \* user_data/<id>.json of every tenant
    timeline,   \* what get_user_tweets returns now (the tracked account)
    clock,      \* datetime.now(UTC), in minutes
    tick,       \* tweet_checker_loop: "Idle" or "Running", and its active_tasks
    run,        \* one check_tweets_for_user coroutine per slot
    delivered,  \* history: per tenant, the ids that got a 2xx under its configuration
    lastRun,    \* history: per tenant, the run that last reached the seen update
    setup       \* one setup_tracking dialog per tenant

vars == <<store, timeline, clock, tick, run, delivered, lastRun, setup>>

(***************************************************************************)
(* Program constants                                                       *)
(***************************************************************************)
MINUTES_THRESHOLD == 30
MAX_SEEN_IDS == 200
LOOP_MINUTES == 15
DEFAULT_RETRY_AFTER == 5
RETRY_PADDING == 1
PACE_SECONDS == 1

(***************************************************************************)
(* Bounds of the model                                                     *)
(***************************************************************************)
ClockStart == 60
MaxClock == 75
MaxFetch == 3
MaxId == 420
BulkOne == 99
BulkTwo == 100
RetryHint == 3
MaxMedia == 3

Tenants == {1, 2}
Owner == 1
Kinds == {"tick", "manual"}
Slots == Tenants \X Kinds

RequiredKeys == {"encrypted_cookies", "target_twitter_id", "webhook_url", "target_screen_name"}

(***************************************************************************)
(* Item ids. An id is a string in the program. Here an id n >= 0 is the    *)
(* decimal string of n; an id n < 0 is one of the strings of IdString,     *)
(* none of which is made of digits only.                                   *)
(***************************************************************************)
Digits == {"0", "1", "2", "3", "4", "5", "6", "7", "8", "9"}

IdString(x) ==
    CASE x = -1 -> <<"a", "b", "c">>
      [] x = -2 -> <<"1", "2", "a">>
      [] OTHER  -> <<>>

\* str.isdigit(): non-empty and every character a digit
IsDigit(x) ==
    IF x >= 0 THEN TRUE
    ELSE LET s == IdString(x) IN Len(s) > 0 /\ \A i \in 1..Len(s) : s[i] \in Digits

\* key=lambda x: int(x) if x.isdigit() else 0
SortKey(x) == IF IsDigit(x) THEN x ELSE 0

(***************************************************************************)
(* Tweets                                                                  *)
(***************************************************************************)
TweetWithMedia(id, at, text, media) ==
    [id |-> id, created_at |-> at, text |-> text, time_ok |-> TRUE, media |-> media]

Tweet(id, at, text) == TweetWithMedia(id, at, text, <<>>)

Upper(c) == CASE c = "r" -> "R" [] c = "t" -> "T" [] OTHER -> c

\* re.match(r'RT @.*', tweet.text, re.IGNORECASE) is not None
IsRetweet(text) ==
    /\ Len(text) >= 4
    /\ Upper(text[1]) = "R"
    /\ Upper(text[2]) = "T"
    /\ text[3] = " "
    /\ text[4] = "@"

(***************************************************************************)
(* The media of the embed (lines 618-661, 671-672, 692-694). A medium is   *)
(* its type and its media_url; a line of media_links is its form, its      *)
(* label, the number idx+1 and the URL.                                    *)
(***************************************************************************)
\* getattr(medium, 'media_url', None): None for a medium without URL, the
\* empty string, or a URL (a positive number)
NoUrl == 0
EmptyUrl == -1

\* if media_url: neither None nor the empty string
Truthy(media_url) == media_url \notin {NoUrl, EmptyUrl}

MediumTypes == {"photo", "video", "animated_gif", "unknown"}

Medium(type, media_url) == [type |-> type, media_url |-> media_url]

MediaLink(form, label, n, url) == [form |-> form, label |-> label, n |-> n, url |-> url]

\* line 632: getattr(medium, media_url, None) takes the URL for the name of an
\* attribute: None when the URL is a string, TypeError when it is None. The
\* error ends the building of the embed (line 733).
BuildRaises(media) ==
    \E i \in 1..Len(media) : media[i].type = "photo" /\ media[i].media_url = NoUrl

\* lines 626-643: photo_url is None after line 632 and media_url after line
\* 634; a photo whose URL is truthy goes to image_urls_for_embed, and the
\* link of line 643 needs a truthy media_url with a falsy photo_url
IsImage(medium) == medium.type = "photo" /\ Truthy(medium.media_url)

\* lines 626-661: the line of media_links of the medium at idx, if any
LinesOf(medium, idx) ==
    IF medium.type = "photo" THEN <<>>
    ELSE IF medium.type \in {"video", "animated_gif"}
         THEN LET label == IF medium.type = "video" THEN "video" ELSE "GIF" IN
              IF Truthy(medium.media_url)
              THEN <<MediaLink("link", label, idx + 1, medium.media_url)>>
              ELSE <<MediaLink("text", label, idx + 1, NoUrl)>>
         ELSE IF Truthy(medium.media_url)
              THEN <<MediaLink("link", "media", idx + 1, medium.media_url)>>
              ELSE <<>>

\* for idx, medium in enumerate(tweet.media): the lines in the order of idx
RECURSIVE MediaLinks(_, _)
MediaLinks(media, idx) ==
    IF idx >= Len(media) THEN <<>>
    ELSE LinesOf(media[idx + 1], idx) \o MediaLinks(media, idx + 1)

ImageUrls(media) ==
    LET photos == SelectSeq(media, IsImage) IN
    [k \in 1..Len(photos) |-> photos[k].media_url]

\* an embed that would show the last image
LastImage(image_urls_for_embed) ==
    IF image_urls_for_embed = <<>> THEN NoUrl
    ELSE image_urls_for_embed[Len(image_urls_for_embed)]

\* lines 692-694: first_embed["image"] = {"url": image_urls_for_embed[0]}
FirstImage(image_urls_for_embed) ==
    IF image_urls_for_embed = <<>> THEN NoUrl ELSE image_urls_for_embed[1]

\* what the payload holds of the media: the lines added to the description
\* and the image of the first embed
Payload(media) ==
    [media_links |-> MediaLinks(media, 0), image |-> FirstImage(ImageUrls(media))]

(***************************************************************************)
(* Filter: the loop over the fetched tweets (lines 586-605)                *)
(*                                                                         *)
(* The loop stops at the first tweet older than the threshold; a tweet     *)
(* whose timestamp cannot be read raises, and is skipped.                  *)
(***************************************************************************)
Least(S) == CHOOSE x \in S : \A y \in S : x <= y

\* a loop that would never break
NeverBreaks(tweets, threshold) == Len(tweets) + 1

\* the index at which the loop breaks, Len(tweets) + 1 when it does not
BreakIndex(tweets, threshold) ==
    LET old == {i \in 1..Len(tweets) :
                  tweets[i].time_ok /\ tweets[i].created_at < threshold}
    IN  IF old = {} THEN Len(tweets) + 1 ELSE Least(old)

\* a loop that would take every tweet whatever its time
InspectedAll(tweets, threshold) == SelectSeq(tweets, LAMBDA tw : tw.time_ok)

\* the tweets the loop looks at with tweet_time >= time_threshold
InWindow(tweets, threshold) ==
    SelectSeq(SubSeq(tweets, 1, BreakIndex(tweets, threshold) - 1), LAMBDA tw : tw.time_ok)

\* a filter that would record the id of every in-window tweet, RT or not
RecordedAlways(tw) == TRUE

\* line 592: only a tweet that is no RT is recorded in all_current_ids_in_window
RecordedInWindow(tw) == ~IsRetweet(tw.text)

\* lines 592-596: a candidate is no RT and its id is not in seen_tweet_ids
IsCandidate(tw, seen) == ~IsRetweet(tw.text) /\ tw.id \notin seen

FilterTweets(tweets, threshold, seen) ==
    LET inside == InWindow(tweets, threshold) IN
    [recent |-> SelectSeq(inside, LAMBDA tw : IsCandidate(tw, seen)),
     window |-> {inside[i].id : i \in {j \in 1..Len(inside) : RecordedInWindow(inside[j])}}]

(***************************************************************************)
(* recent_tweets.sort(key=created_at_datetime): ascending and stable, so   *)
(* the tweets of one timestamp keep their order                            *)
(***************************************************************************)
RECURSIVE SortBuckets(_, _)
SortBuckets(tweets, times) ==
    IF times = {} THEN <<>>
    ELSE LET t == Least(times) IN
         SelectSeq(tweets, LAMBDA tw : tw.created_at = t) \o SortBuckets(tweets, times \ {t})

\* the candidates left in the order of the fetch
FetchOrder(tweets) == tweets

SortByCreatedAt(tweets) ==
    SortBuckets(tweets, {tweets[i].created_at : i \in 1..Len(tweets)})

(***************************************************************************)
(* The seen-set update (lines 742-751)                                     *)
(*                                                                         *)
(* sorted(list(combined), key=SortKey, reverse=True)[:MAX_SEEN_IDS].       *)
(* The sort is stable, so ids of equal key keep the order in which the set *)
(* is iterated, which the program does not control: every order of them is *)
(* a possible outcome. Only key 0 can be shared (the id "0" and the ids    *)
(* that are not made of digits); an id n > 0 is alone with key n.          *)
(***************************************************************************)
RECURSIVE Orderings(_)
Orderings(S) ==
    IF S = {} THEN {<<>>}
    ELSE UNION {{<<x>> \o p : p \in Orderings(S \ {x})} : x \in S}

DescendingKeys == [i \in 1..MaxId |-> MaxId + 1 - i]

\* the same sort without reverse=True
SortedByKeyAscending(ids) ==
    LET positive == SelectSeq([i \in 1..MaxId |-> i], LAMBDA k : k \in ids)
        lowest == {x \in ids : SortKey(x) = 0}
    IN  {p \o positive : p \in Orderings(lowest)}

SortedByKeyDescending(ids) ==
    LET positive == SelectSeq(DescendingKeys, LAMBDA k : k \in ids)
        lowest == {x \in ids : SortKey(x) = 0}
    IN  {positive \o p : p \in Orderings(lowest)}

\* a list left at its full length
KeepAll(list, n) == list

Truncate(list, n) == SubSeq(list, 1, IF Len(list) < n THEN Len(list) ELSE n)

\* an update that would list the ids of the window and the seen ids one after
\* the other, without the union of sets
WithRepeats(window, seen) ==
    {Truncate(w \o l, MAX_SEEN_IDS) :
       w \in SortedByKeyDescending(window), l \in SortedByKeyDescending(seen)}

\* lines 745-751: the union of sets, sorted by key descending, cut to 200
UpdatedSeenLists(window, seen) ==
    {Truncate(l, MAX_SEEN_IDS) : l \in SortedByKeyDescending(window \cup seen)}

Range(f) == {f[i] : i \in DOMAIN f}

(***************************************************************************)
(* The store: load_user_data / save_user_data                              *)
(***************************************************************************)
NoRecord ==
    [file |-> "absent", keys |-> {}, enabled |-> FALSE,
     seen_tweet_ids |-> <<>>, cookies |-> "none"]

\* What setup_tracking saves at its end (lines 381-390)
SetupRecord ==
    [file |-> "ok", keys |-> RequiredKeys, enabled |-> TRUE,
     seen_tweet_ids |-> <<>>, cookies |-> "mapping"]

\* load_user_data returns None for a missing file and for one that is not JSON
Loaded(rec) == rec.file = "ok"

\* json.dump of the caller's dict over the tenant's file
Saved(st, t, data) == [st EXCEPT ![t] = [data EXCEPT !.file = "ok"]]

(***************************************************************************)
(* decrypt_data (lines 79-94): None for a bad token, else the JSON value   *)
(* or the text                                                             *)
(***************************************************************************)
Decrypt(cookies) ==
    CASE cookies = "mapping"       -> [kind |-> "dict", empty |-> FALSE]
      [] cookies = "empty_mapping" -> [kind |-> "dict", empty |-> TRUE]
      [] cookies = "text"          -> [kind |-> "str", empty |-> FALSE]
      [] OTHER                     -> [kind |-> "none", empty |-> TRUE]

\* not (not decrypted_cookies or not isinstance(decrypted_cookies, dict))
DecryptUsable(d) == d.kind = "dict" /\ ~d.empty

\* a check that would let every record through
AnyRecordComplete(user_data) == TRUE

\* all(k in user_data for k in required_keys)
IsComplete(user_data) == RequiredKeys \subseteq user_data.keys

(***************************************************************************)
(* Errors of the twikit calls                                              *)
(***************************************************************************)
LowerWord(w) == IF w = "Authenticate" THEN "authenticate" ELSE w

Contains(msg, word) == \E i \in 1..Len(msg) : msg[i] = word

\* "authenticate" in str(e).lower() or "401" in str(e) or "403" in str(e)
IsAuthError(msg) ==
    \/ Contains([i \in 1..Len(msg) |-> LowerWord(msg[i])], "authenticate")
    \/ Contains(msg, "401")
    \/ Contains(msg, "403")

FetchOutcome(kind, msg) == [kind |-> kind, msg |-> msg]

HttpMessages ==
    {<<"status:", "401">>, <<"status:", "403">>,
     <<"Could", "not", "Authenticate", "you">>, <<"status:", "500">>}

FetchErrors ==
    {FetchOutcome("UserNotFound", <<>>), FetchOutcome("Exception", <<>>)}
    \cup {FetchOutcome("HTTPException", m) : m \in HttpMessages}

GetUserOutcomes ==
    {FetchOutcome("ok", <<>>), FetchOutcome("none", <<>>)} \cup FetchErrors

GetTweetsOutcomes == {FetchOutcome("ok", <<>>)} \cup FetchErrors

(***************************************************************************)
(* Outcomes of one webhook post                                            *)
(***************************************************************************)
NoHint == -1      \* the 429 body has no retry_after key
BadBody == -2     \* response.json() raises

Statuses == {204, 400, 401, 404, 429, 500}

PostOutcome(kind, status, hint) == [kind |-> kind, status |-> status, hint |-> hint]

FirstPostOutcomes ==
    {PostOutcome("build_exc", 0, NoHint), PostOutcome("post_exc", 0, NoHint)}
    \cup {PostOutcome("response", st, NoHint) : st \in Statuses \ {429}}
    \cup {PostOutcome("response", 429, h) : h \in {RetryHint, NoHint, BadBody}}

SecondPostOutcomes ==
    {PostOutcome("post_exc", 0, NoHint)}
    \cup {PostOutcome("response", st, NoHint) : st \in Statuses}

DmOutcomes == {"ok", "Forbidden", "NotFound", "HTTPException"}

(***************************************************************************)
(* One check_tweets_for_user coroutine                                     *)
(***************************************************************************)
IdleRun ==
    [pc |-> "idle", user_data |-> NoRecord, seen_tweet_ids |-> {},
     time_threshold |-> 0, tweets |-> <<>>, recent_tweets |-> <<>>,
     all_current_ids_in_window |-> {}, i |-> 0, newly_posted_ids |-> {},
     retry_after |-> 0, sleep |-> 0, posts |-> 0, site |-> "",
     \* history of the run
     attempts |-> <<>>,          \* the id of every candidate that was posted
     fetch |-> [kind |-> "", msg |-> <<>>],  \* what the last twikit call gave
     excepted |-> {},            \* ids whose loop body raised (line 733)
     retry_status |-> 0,         \* the status of the second post of the candidate
     endpoint_fail_at |-> 0,     \* Len(attempts) at the first 400/401/404
     notified |-> 0,             \* calls of notify_user_and_disable
     disables |-> 0,             \* calls of it that reached lines 785-786
     saves |-> 0,                \* calls of save_user_data
     calls |-> {},               \* the external calls made
     exit |-> "",                \* where the run ended
     raised |-> FALSE,           \* an exception left check_tweets_for_user
     stored |-> NoRecord,        \* the tenant's file when the run ended
     payload |-> Payload(<<>>)]  \* the media of the payload that was last posted

\* asyncio.create_task(check_tweets_for_user(user_id, user_data))
CreatedRun(user_data) == [IdleRun EXCEPT !.pc = "created", !.user_data = user_data]

\* the coroutine returns: its loop-local variables are gone, its history stays
Finished(r, exit) ==
    [r EXCEPT !.pc = "done", !.exit = exit, !.site = "", !.posts = 0,
              !.retry_status = 0, !.retry_after = 0, !.sleep = 0]

\* await notify_user_and_disable(...) from one of its call sites
NotifyCall(r, site) ==
    [r EXCEPT !.pc = "notify_fetch_user", !.site = site, !.notified = @ + 1,
              !.calls = @ \cup {"fetch_user"}]

\* the for loop over recent_tweets moves on, or ends before the seen update
NextCandidate(r) ==
    [r EXCEPT !.i = @ + 1, !.posts = 0, !.retry_status = 0, !.retry_after = 0, !.sleep = 0,
              !.pc = IF r.i + 1 > Len(r.recent_tweets) THEN "seen_update" ELSE "deliver"]

\* a handler that would give the run up at the first exception of a candidate
AbortOnItemException(r) ==
    Finished([r EXCEPT !.excepted = @ \cup {r.recent_tweets[r.i].id}], "error")

\* except Exception of lines 733-736: log, continue with the next candidate
OnItemException(r) ==
    NextCandidate([r EXCEPT !.excepted = @ \cup {r.recent_tweets[r.i].id}])

\* a sleep of retry_after seconds only
RetryAfterOnly(retry_after) == retry_after

\* sleep retry_after + 1 seconds before the second post (line 713)
RetrySleepSeconds(retry_after) == retry_after + RETRY_PADDING

\* 200 <= response.status_code < 300
IsSuccess(status) == 200 <= status /\ status < 300

\* response.status_code in [400, 401, 404]
IsEndpointFailure(status) == status \in {400, 401, 404}

\* lines 718-731, for the response of the first or of the second post
HandleResponse(r, status) ==
    LET id == r.recent_tweets[r.i].id IN
    IF IsSuccess(status)
    THEN [r EXCEPT !.newly_posted_ids = @ \cup {id},
                   !.pc = "pace_sleep", !.sleep = PACE_SECONDS]
    ELSE IF IsEndpointFailure(status)
         THEN [NotifyCall(r, "deliver") EXCEPT
                   !.endpoint_fail_at = IF @ = 0 THEN Len(r.attempts) ELSE @]
         ELSE [r EXCEPT !.pc = "pace_sleep", !.sleep = PACE_SECONDS]

(***************************************************************************)
(* History                                                                 *)
(***************************************************************************)
NoLastRun == [valid |-> FALSE, tweets |-> <<>>, seen |-> <<>>, failed |-> {}]

\* the run that reached the seen update is remembered with what it fetched,
\* what it left in the store and, when no post was answered 400/401/404, the
\* candidates it posted without a 2xx; any other end of a run forgets it
LastRunAfter(t, r2, st2) ==
    IF r2.pc # "done" THEN lastRun[t]
    ELSE IF r2.exit = "seen_update"
         THEN [valid |-> TRUE, tweets |-> r2.tweets, seen |-> st2[t].seen_tweet_ids,
               failed |-> IF r2.notified = 0
                          THEN Range(r2.attempts) \ r2.newly_posted_ids
                          ELSE {}]
         ELSE NoLastRun

NoneDelivered == {}

\* a 2xx for id
Counted(d, t, id) == [d EXCEPT ![t] = @ \cup {id}]

\* slot s moves to r2 and the store becomes st2
Commit(s, r2, st2) ==
    /\ run' = [run EXCEPT ![s] = IF r2.pc = "done" THEN [r2 EXCEPT !.stored = st2[s[1]]]
                                 ELSE r2]
    /\ store' = st2
    /\ lastRun' = [lastRun EXCEPT ![s[1]] = LastRunAfter(s[1], r2, st2)]

(***************************************************************************)
(* check_tweets_for_user, from its start to the first await (502-549)      *)
(***************************************************************************)
StartRun(s, clientOutcomes) ==
    /\ run[s].pc = "created"
    /\ \E c \in clientOutcomes :
         LET r == run[s]
             ud == r.user_data
             off == [ud EXCEPT !.enabled = FALSE]
         IN  IF ~IsComplete(ud)
             THEN Commit(s, Finished([r EXCEPT !.user_data = off, !.saves = @ + 1], "incomplete"),
                         Saved(store, s[1], off))
             ELSE IF ~DecryptUsable(Decrypt(ud.cookies))
                  THEN Commit(s, NotifyCall([r EXCEPT !.calls = @ \cup {"decrypt"}], "decrypt"),
                              store)
                  ELSE IF c = "raise"
                       THEN Commit(s, Finished([r EXCEPT !.calls = @ \cup {"decrypt"}], "error"),
                                   store)
                       ELSE Commit(s, [r EXCEPT !.pc = "get_user",
                                                !.calls = @ \cup {"decrypt", "get_user"},
                                                !.seen_tweet_ids = Range(ud.seen_tweet_ids),
                                                !.time_threshold = clock - MINUTES_THRESHOLD],
                                   store)
    /\ UNCHANGED <<setup, timeline, clock, tick, delivered>>

\* handlers that would notify and deactivate on every error
AfterFetchErrorNotify(r, o) == NotifyCall(r, "handler")

\* what the except clauses of lines 560-574 do with an error of a twikit call
AfterFetchError(r, o) ==
    IF o.kind = "UserNotFound" THEN NotifyCall(r, "handler")
    ELSE IF o.kind = "HTTPException" /\ IsAuthError(o.msg) THEN NotifyCall(r, "handler")
    ELSE Finished(r, "transient")

\* await client.get_user_by_id(...) returns or raises (549-553)
GetUserReturns(s, outcomes) ==
    /\ run[s].pc = "get_user"
    /\ \E o \in outcomes :
         LET r == [run[s] EXCEPT !.fetch = o] IN
         Commit(s, IF o.kind = "ok"
                   THEN [r EXCEPT !.pc = "get_tweets", !.calls = @ \cup {"get_tweets"}]
                   ELSE IF o.kind = "none" THEN NotifyCall(r, "inner_try")
                   ELSE AfterFetchError(r, o),
                store)
    /\ UNCHANGED <<setup, timeline, clock, tick, delivered>>

\* lines 576-610: empty answer, filter, sort
AfterFetch(r, tweets) ==
    IF tweets = <<>> THEN Finished([r EXCEPT !.tweets = tweets], "empty")
    ELSE LET f == FilterTweets(tweets, r.time_threshold, r.seen_tweet_ids)
             sorted == SortByCreatedAt(f.recent)
         IN  [r EXCEPT !.tweets = tweets,
                       !.recent_tweets = sorted,
                       !.all_current_ids_in_window = f.window,
                       !.i = 1,
                       !.pc = IF sorted = <<>> THEN "seen_update" ELSE "deliver"]

\* await client.get_user_tweets(...) returns or raises (557-574)
GetTweetsReturns(s, outcomes) ==
    /\ run[s].pc = "get_tweets"
    /\ \E o \in outcomes :
         LET r == [run[s] EXCEPT !.fetch = o] IN
         Commit(s, IF o.kind = "ok" THEN AfterFetch(r, timeline) ELSE AfterFetchError(r, o),
                store)
    /\ UNCHANGED <<setup, timeline, clock, tick, delivered>>

(***************************************************************************)
(* One candidate of the delivery loop (613-736)                            *)
(***************************************************************************)
AfterFirstPost(r, o) ==
    LET tw == r.recent_tweets[r.i]
        posted == [r EXCEPT !.attempts = Append(@, tw.id), !.posts = 1,
                            !.calls = @ \cup {"post"}, !.payload = Payload(tw.media)]
    IN  IF o.kind = "build_exc" \/ BuildRaises(tw.media) THEN OnItemException(r)
        ELSE IF o.kind = "post_exc" THEN OnItemException(posted)
        ELSE IF o.status = 429
             THEN IF o.hint = BadBody THEN OnItemException(posted)
                  ELSE LET retry_after == IF o.hint = NoHint THEN DEFAULT_RETRY_AFTER
                                          ELSE o.hint
                       IN  [posted EXCEPT !.retry_after = retry_after,
                                          !.pc = "retry_sleep",
                                          !.sleep = RetrySleepSeconds(retry_after)]
             ELSE HandleResponse(posted, o.status)

AfterSecondPost(r, o) ==
    LET posted == [r EXCEPT !.posts = @ + 1] IN
    IF o.kind = "post_exc" THEN OnItemException(posted)
    ELSE HandleResponse([posted EXCEPT !.retry_status = o.status], o.status)

DeliveredAfter(s, r, r2) ==
    LET id == r.recent_tweets[r.i].id IN
    IF id \in r2.newly_posted_ids \ r.newly_posted_ids
    THEN Counted(delivered, s[1], id)
    ELSE delivered

\* build the embed and post it (618-729)
Deliver(s, outcomes) ==
    /\ run[s].pc = "deliver"
    /\ \E o \in outcomes :
         LET r2 == AfterFirstPost(run[s], o) IN
         /\ Commit(s, r2, store)
         /\ delivered' = DeliveredAfter(s, run[s], r2)
    /\ UNCHANGED <<setup, timeline, clock, tick>>

\* the sleep after a 429 ends and the payload is posted again (713-729)
RetryPost(s, outcomes) ==
    /\ run[s].pc = "retry_sleep"
    /\ \E o \in outcomes :
         LET r2 == AfterSecondPost(run[s], o) IN
         /\ Commit(s, r2, store)
         /\ delivered' = DeliveredAfter(s, run[s], r2)
    /\ UNCHANGED <<setup, timeline, clock, tick>>

\* await asyncio.sleep(1) ends (731)
PaceSleepDone(s) ==
    /\ run[s].pc = "pace_sleep"
    /\ Commit(s, NextCandidate(run[s]), store)
    /\ UNCHANGED <<setup, timeline, clock, tick, delivered>>

(***************************************************************************)
(* The seen-set update (742-759)                                           *)
(***************************************************************************)
SeenUpdate(s) ==
    /\ run[s].pc = "seen_update"
    /\ \E l \in UpdatedSeenLists(run[s].all_current_ids_in_window, run[s].seen_tweet_ids) :
         LET r == run[s]
             ud == [r.user_data EXCEPT !.seen_tweet_ids = l]
         IN  IF Range(r.user_data.seen_tweet_ids) # Range(l)
             THEN Commit(s, Finished([r EXCEPT !.user_data = ud, !.saves = @ + 1], "seen_update"),
                         Saved(store, s[1], ud))
             ELSE Commit(s, Finished(r, "seen_update"), store)
    /\ UNCHANGED <<setup, timeline, clock, tick, delivered>>

(***************************************************************************)
(* notify_user_and_disable (772-786)                                       *)
(***************************************************************************)
\* lines 785-786, then the caller returns
Disable(s, r) ==
    LET off == [r.user_data EXCEPT !.enabled = FALSE] IN
    Commit(s, Finished([r EXCEPT !.user_data = off, !.saves = @ + 1, !.disables = @ + 1],
                       "deactivated"),
           Saved(store, s[1], off))

\* an exception that is neither Forbidden nor NotFound leaves the function
\* before line 785 and goes to the handler that encloses the call site
NotifyRaised(s, r) ==
    Commit(s, IF r.site = "decrypt" THEN [Finished(r, "raised") EXCEPT !.raised = TRUE]
              ELSE IF r.site = "deliver" THEN OnItemException(r)
              ELSE Finished(r, "error"),
           store)

\* await bot.fetch_user(user_id) returns or raises (777)
NotifyFetchUserReturns(s, outcomes) ==
    /\ run[s].pc = "notify_fetch_user"
    /\ \E o \in outcomes \ {"Forbidden"} :
         LET r == [run[s] EXCEPT !.retry_status = 0] IN
         IF o = "ok"
         THEN Commit(s, [r EXCEPT !.pc = "notify_send", !.calls = @ \cup {"send"}], store)
         ELSE IF o = "NotFound" THEN Disable(s, r)
         ELSE NotifyRaised(s, r)
    /\ UNCHANGED <<setup, timeline, clock, tick, delivered>>

\* await user.send(...) returns or raises (779-782)
NotifySendReturns(s, outcomes) ==
    /\ run[s].pc = "notify_send"
    /\ \E o \in outcomes :
         IF o \in {"ok", "Forbidden", "NotFound"} THEN Disable(s, run[s])
         ELSE NotifyRaised(s, run[s])
    /\ UNCHANGED <<setup, timeline, clock, tick, delivered>>

(***************************************************************************)
(* tweet_checker_loop (449-490)                                            *)
(***************************************************************************)
\* a test that would take every record that loads, enabled or not
AnyLoaded(rec) == Loaded(rec)

\* user_data and user_data.get('enabled'), for every file of the directory
Enabled(rec) == Loaded(rec) /\ rec.enabled

\* one tick, up to the await of asyncio.gather: a task per enabled tenant
TickStart ==
    /\ tick.state = "Idle"
    /\ LET launched == {t \in Tenants : Enabled(store[t])} IN
       /\ run' = [s \in Slots |->
                    IF s[2] = "tick" /\ s[1] \in launched
                    THEN CreatedRun(store[s[1]]) ELSE run[s]]
       /\ tick' = IF launched = {} THEN tick
                  ELSE [state |-> "Running", active_tasks |-> launched]
    /\ UNCHANGED <<setup, store, timeline, clock, delivered, lastRun>>

\* a gather that would return at the first exception of a task
GatherUntilException(active_tasks) ==
    \/ \A t \in active_tasks : run[<<t, "tick">>].pc = "done"
    \/ \E t \in active_tasks : run[<<t, "tick">>].raised

\* asyncio.gather(*active_tasks, return_exceptions=True) is over
GatherDone(active_tasks) ==
    \A t \in active_tasks : run[<<t, "tick">>].pc = "done"

\* asyncio.gather returns once every task has finished
TickEnd ==
    /\ tick.state = "Running"
    /\ GatherDone(tick.active_tasks)
    /\ tick' = [state |-> "Idle", active_tasks |-> {}]
    /\ run' = [s \in Slots |-> IF s[2] = "tick" THEN IdleRun ELSE run[s]]
    /\ UNCHANGED <<setup, store, timeline, clock, delivered, lastRun>>

(***************************************************************************)
(* User commands                                                           *)
(***************************************************************************)
\* track_toggle (402-420)
TrackToggle(t) ==
    /\ Loaded(store[t])
    /\ store' = Saved(store, t, [store[t] EXCEPT !.enabled = ~store[t].enabled])
    /\ lastRun' = [lastRun EXCEPT ![t] = NoLastRun]
    /\ UNCHANGED <<setup, timeline, clock, tick, run, delivered>>

\* setup_tracking reaching its step 4 (379-393): a new configuration
SetupTracking(t) ==
    /\ store' = Saved(store, t, SetupRecord)
    /\ delivered' = [delivered EXCEPT ![t] = NoneDelivered]
    /\ lastRun' = [lastRun EXCEPT ![t] = NoLastRun]
    /\ UNCHANGED <<setup, timeline, clock, tick, run>>

\* check_now_command up to the call of check_tweets_for_user (426-440)
CheckNow(t) ==
    /\ run[<<t, "manual">>].pc = "idle"
    /\ Enabled(store[t])
    /\ run' = [run EXCEPT ![<<t, "manual">>] = CreatedRun(store[t])]
    /\ UNCHANGED <<setup, store, timeline, clock, tick, delivered, lastRun>>

\* check_now_command after check_tweets_for_user returned or raised (441-445)
CheckNowEnd(t) ==
    /\ run[<<t, "manual">>].pc = "done"
    /\ run' = [run EXCEPT ![<<t, "manual">>] = IdleRun]
    /\ UNCHANGED <<setup, store, timeline, clock, tick, delivered, lastRun>>

(***************************************************************************)
(* setup_tracking (208-397), one step per await of an answer. The dialog   *)
(* changes its own dict user_data; exit and saves are history.             *)
(***************************************************************************)
\* load_user_data(user_id) or {}
EmptyDict ==
    [file |-> "absent", keys |-> {}, enabled |-> FALSE,
     seen_tweet_ids |-> <<>>, cookies |-> "none"]

IdleSetup ==
    [pc |-> "idle", user_data |-> EmptyDict, encrypted_cookies_temp |-> "none",
     exit |-> "", saves |-> 0]

\* every return of the dialog
SetupReturned(d, exit) == [d EXCEPT !.pc = "idle", !.exit = exit]

\* a dialog that would write the dict to the file each time it changes it
WrittenThrough(st, t, user_data) == Saved(st, t, user_data)

\* lines 322-323 and 365 change the dict in memory and leave the file alone
KeptInMemory(st, t, user_data) == st

\* the command starts: lines 208-232, up to the wait for the cookies
SetupBegin(t) ==
    /\ setup[t].pc = "idle"
    /\ setup' = [setup EXCEPT ![t] =
                   [IdleSetup EXCEPT !.pc = "cookie",
                                     !.user_data = IF Loaded(store[t]) THEN store[t]
                                                   ELSE EmptyDict]]
    /\ UNCHANGED <<store, timeline, clock, tick, run, delivered, lastRun>>

CookieOutcomes == {"ok", "timeout", "not_json_file", "bad_json", "no_cookie", "client_error"}

\* step 1 (232-289): the message with the cookies arrives, or the wait ends
SetupCookieReturns(t, outcomes) ==
    /\ setup[t].pc = "cookie"
    /\ \E o \in outcomes :
         setup' = [setup EXCEPT ![t] =
                     IF o = "ok"
                     THEN [@ EXCEPT !.pc = "screen_name", !.encrypted_cookies_temp = "mapping"]
                     ELSE SetupReturned(@, o)]
    /\ UNCHANGED <<store, timeline, clock, tick, run, delivered, lastRun>>

ScreenNameOutcomes == {"ok", "timeout", "empty"}

\* step 2 (302-311, 339-341): the screen name arrives, or the wait ends
SetupScreenNameReturns(t, outcomes) ==
    /\ setup[t].pc = "screen_name"
    /\ \E o \in outcomes :
         setup' = [setup EXCEPT ![t] =
                     IF o = "ok" THEN [@ EXCEPT !.pc = "lookup"] ELSE SetupReturned(@, o)]
    /\ UNCHANGED <<store, timeline, clock, tick, run, delivered, lastRun>>

\* step 4 (381-396): one save when the three keys are in the dict
Step4(st, t, d) ==
    IF {"target_twitter_id", "target_screen_name", "webhook_url"} \subseteq d.user_data.keys
    THEN LET ud == [d.user_data EXCEPT !.keys = @ \cup {"encrypted_cookies"},
                                       !.cookies = d.encrypted_cookies_temp,
                                       !.enabled = TRUE,
                                       !.seen_tweet_ids = <<>>]
         IN  [store |-> Saved(st, t, ud),
              setup |-> [SetupReturned(d, "saved") EXCEPT !.user_data = ud, !.saves = @ + 1]]
    ELSE [store |-> st, setup |-> SetupReturned(d, "missing_key")]

\* a setup that saves starts a new configuration of the tenant
NewConfiguration(t, saved) ==
    /\ delivered' = IF saved THEN [delivered EXCEPT ![t] = NoneDelivered] ELSE delivered
    /\ lastRun' = IF saved THEN [lastRun EXCEPT ![t] = NoLastRun] ELSE lastRun

LookupOutcomes == {"found", "found_without_id", "empty", "UserNotFound", "HTTPException", "Exception"}

\* step 2 (313-337): get_user_by_screen_name returns or raises. A user whose
\* id is falsy skips step 3 (line 348) and goes to step 4.
SetupLookupReturns(t, outcomes) ==
    /\ setup[t].pc = "lookup"
    /\ \E o \in outcomes :
         LET d == setup[t]
             ud == [d.user_data EXCEPT
                      !.keys = @ \cup {"target_twitter_id", "target_screen_name"}]
         IN  IF o = "found"
             THEN /\ setup' = [setup EXCEPT ![t] = [d EXCEPT !.pc = "webhook", !.user_data = ud]]
                  /\ store' = KeptInMemory(store, t, ud)
                  /\ NewConfiguration(t, FALSE)
             ELSE IF o = "found_without_id"
                  THEN LET end == Step4(KeptInMemory(store, t, ud), t, [d EXCEPT !.user_data = ud])
                       IN  /\ setup' = [setup EXCEPT ![t] = end.setup]
                           /\ store' = end.store
                           /\ NewConfiguration(t, end.setup.exit = "saved")
                  ELSE /\ setup' = [setup EXCEPT ![t] = SetupReturned(d, o)]
                       /\ store' = store
                       /\ NewConfiguration(t, FALSE)
    /\ UNCHANGED <<timeline, clock, tick, run>>

WebhookOutcomes == {"valid", "invalid", "timeout", "Exception"}

\* step 3 (361-377), then step 4: a message arrives, or the wait ends. A
\* message that is no webhook URL is answered and the dialog waits again.
SetupWebhookReturns(t, outcomes) ==
    /\ setup[t].pc = "webhook"
    /\ \E o \in outcomes :
         LET d == setup[t]
             ud == [d.user_data EXCEPT !.keys = @ \cup {"webhook_url"}]
         IN  IF o = "valid"
             THEN LET end == Step4(KeptInMemory(store, t, ud), t, [d EXCEPT !.user_data = ud])
                  IN  /\ setup' = [setup EXCEPT ![t] = end.setup]
                      /\ store' = end.store
                      /\ NewConfiguration(t, end.setup.exit = "saved")
             ELSE IF o = "invalid"
                  THEN /\ UNCHANGED <<setup, store>>
                       /\ NewConfiguration(t, FALSE)
                  ELSE /\ setup' = [setup EXCEPT ![t] = SetupReturned(d, o)]
                       /\ store' = store
                       /\ NewConfiguration(t, FALSE)
    /\ UNCHANGED <<timeline, clock, tick, run>>

(***************************************************************************)
(* Environment                                                             *)
(***************************************************************************)
\* the 15 minutes from one tick to the next (tasks.loop). A run reads the
\* clock once, at line 540, so time that passes during a run is time that
\* passes after it.
AdvanceClock ==
    /\ tick.state = "Idle"
    /\ clock + LOOP_MINUTES <= MaxClock
    /\ clock' = clock + LOOP_MINUTES
    /\ UNCHANGED <<setup, store, timeline, tick, run, delivered, lastRun>>

\* the tracked account posts: get_user_tweets has another answer from now on
Publish(timelines) ==
    /\ \E tl \in timelines \ {timeline} :
         /\ \A i \in 1..Len(tl) : tl[i].created_at <= clock
         /\ timeline' = tl
    /\ UNCHANGED <<setup, store, clock, tick, run, delivered, lastRun>>

(***************************************************************************)
(* The tracked account of the specification Spec                           *)
(***************************************************************************)
Catalog ==
    {Tweet(301, 35, <<"h", "i">>),
     Tweet(302, 50, <<"r", "T", " ", "@", "a">>),
     Tweet(303, 50, <<"R", "T", "@", "a">>),
     Tweet(304, 58, <<"y", "o">>)}

RECURSIVE SequencesOf(_, _)
\* the sequences of at most n distinct elements of S
SequencesOf(S, n) ==
    IF n = 0 \/ S = {} THEN {<<>>}
    ELSE {<<>>} \cup UNION {{<<x>> \o q : q \in SequencesOf(S \ {x}, n - 1)} : x \in S}

Timelines == SequencesOf(Catalog, MaxFetch)

IncompleteRecords ==
    {[SetupRecord EXCEPT !.keys = k] : k \in (SUBSET RequiredKeys) \ {RequiredKeys}}

UndecryptableRecords ==
    {[SetupRecord EXCEPT !.cookies = c] : c \in {"empty_mapping", "text", "bad_token"}}

TypeOK ==
    /\ clock \in ClockStart..MaxClock
    /\ tick.state \in {"Idle", "Running"}
    /\ \A s \in Slots : run[s].pc \in
          {"idle", "created", "get_user", "get_tweets", "deliver", "retry_sleep",
           "pace_sleep", "seen_update", "notify_fetch_user", "notify_send", "done"}

Init ==
    /\ clock = ClockStart
    /\ tick = [state |-> "Idle", active_tasks |-> {}]
    /\ run = [s \in Slots |-> IdleRun]
    /\ delivered = [t \in Tenants |-> NoneDelivered]
    /\ lastRun = [t \in Tenants |-> NoLastRun]
    /\ setup = [t \in Tenants |-> IdleSetup]
    /\ \E rec \in {SetupRecord} \cup IncompleteRecords \cup UndecryptableRecords :
         /\ store = [t \in Tenants |-> IF t = Owner THEN rec ELSE NoRecord]
         /\ IF rec = SetupRecord THEN timeline \in Timelines
            ELSE timeline = <<>>

TickSlots == {s \in Slots : s[2] = "tick"}

Next ==
    \/ TickStart
    \/ TickEnd
    \/ AdvanceClock
    \/ TrackToggle(Owner)
    \/ SetupTracking(Owner)
    \/ \E s \in TickSlots :
         \/ StartRun(s, {"ok", "raise"})
         \/ GetUserReturns(s, GetUserOutcomes)
         \/ GetTweetsReturns(s, GetTweetsOutcomes)
         \/ Deliver(s, FirstPostOutcomes)
         \/ RetryPost(s, SecondPostOutcomes)
         \/ PaceSleepDone(s)
         \/ SeenUpdate(s)
         \/ NotifyFetchUserReturns(s, DmOutcomes)
         \/ NotifySendReturns(s, DmOutcomes)

Spec == Init /\ [][Next]_vars

(***************************************************************************)
(* SpecSeen: a busy account, every post answered 204. The seen-set grows   *)
(* from the empty one of setup_tracking up to its cap.                     *)
(***************************************************************************)
\* n tweets with the ids lo .. lo+n-1, newest first, as get_user_tweets lists them
Block(lo, n, at) == [i \in 1..n |-> Tweet(lo + n - i, at, <<"h", "i">>)]

FirstBlock == Block(201, BulkOne, 50)
SecondBlock == Block(301, BulkTwo, 70)

SeenTimelines ==
    {FirstBlock,
     SecondBlock,
     <<Tweet(410, 72, <<"h", "i">>)>> \o SecondBlock,
     <<Tweet(5, 72, <<"h", "i">>)>> \o SecondBlock,
     <<Tweet(-1, 72, <<"h", "i">>), Tweet(-2, 72, <<"h", "i">>)>> \o SecondBlock}

InitSeen ==
    /\ clock = ClockStart
    /\ tick = [state |-> "Idle", active_tasks |-> {}]
    /\ run = [s \in Slots |-> IdleRun]
    /\ delivered = [t \in Tenants |-> NoneDelivered]
    /\ lastRun = [t \in Tenants |-> NoLastRun]
    /\ setup = [t \in Tenants |-> IdleSetup]
    /\ store = [t \in Tenants |-> IF t = Owner THEN SetupRecord ELSE NoRecord]
    /\ timeline = FirstBlock

NextSeen ==
    \/ TickStart
    \/ TickEnd
    \/ AdvanceClock
    \/ Publish(SeenTimelines)
    \/ \E s \in TickSlots :
         \/ StartRun(s, {"ok"})
         \/ GetUserReturns(s, {FetchOutcome("ok", <<>>)})
         \/ GetTweetsReturns(s, {FetchOutcome("ok", <<>>)})
         \/ Deliver(s, {PostOutcome("response", 204, NoHint)})
         \/ PaceSleepDone(s)
         \/ SeenUpdate(s)

SpecSeen == InitSeen /\ [][NextSeen]_vars

(***************************************************************************)
(* SpecConc: two tenants in one tick, and the owner's checknow. The owner  *)
(* has a working record or none; the other tenant has a record whose       *)
(* cookies do not decrypt, or none.                                        *)
(***************************************************************************)
Other == 2

ConcTimeline == <<Tweet(304, 58, <<"y", "o">>), Tweet(303, 50, <<"R", "T", "@", "a">>)>>

InitConc ==
    /\ clock = ClockStart
    /\ tick = [state |-> "Idle", active_tasks |-> {}]
    /\ run = [s \in Slots |-> IdleRun]
    /\ delivered = [t \in Tenants |-> NoneDelivered]
    /\ lastRun = [t \in Tenants |-> NoLastRun]
    /\ setup = [t \in Tenants |-> IdleSetup]
    /\ \E own \in {SetupRecord, NoRecord} :
       \E oth \in {[SetupRecord EXCEPT !.cookies = "bad_token"], NoRecord} :
          store = [t \in Tenants |-> IF t = Owner THEN own ELSE oth]
    /\ timeline = ConcTimeline

\* the steps of the coroutine of slot s whose await is over when the loop
\* schedules it
OwnStep(s) ==
    \/ StartRun(s, {"ok"})
    \/ PaceSleepDone(s)
    \/ SeenUpdate(s)

\* the steps of the coroutine of slot s that wait for an answer from outside
AnswerStep(s) ==
    \/ GetUserReturns(s, {FetchOutcome("ok", <<>>)})
    \/ GetTweetsReturns(s, {FetchOutcome("ok", <<>>)})
    \/ Deliver(s, {PostOutcome("response", 204, NoHint), PostOutcome("response", 401, NoHint)})
    \/ NotifyFetchUserReturns(s, {"ok", "HTTPException"})
    \/ NotifySendReturns(s, {"ok"})

NextConc ==
    \/ TickStart
    \/ TickEnd
    \/ CheckNow(Owner)
    \/ CheckNowEnd(Owner)
    \/ TrackToggle(Other)
    \/ \E s \in Slots : OwnStep(s) \/ AnswerStep(s)

SpecConc == InitConc /\ [][NextConc]_vars

(***************************************************************************)
(* SpecSetup: the owner goes through the setup dialog, with every answer   *)
(* the dialog can get, while ticks run the owner's pipeline.               *)
(***************************************************************************)
WebhookOnlyRecord ==
    [SetupRecord EXCEPT !.keys = {"webhook_url"}, !.enabled = FALSE]

InitSetup ==
    /\ clock = ClockStart
    /\ tick = [state |-> "Idle", active_tasks |-> {}]
    /\ run = [s \in Slots |-> IdleRun]
    /\ delivered = [t \in Tenants |-> NoneDelivered]
    /\ lastRun = [t \in Tenants |-> NoLastRun]
    /\ setup = [t \in Tenants |-> IdleSetup]
    /\ \E rec \in {NoRecord, SetupRecord, WebhookOnlyRecord} :
         store = [t \in Tenants |-> IF t = Owner THEN rec ELSE NoRecord]
    /\ timeline = ConcTimeline

NextSetup ==
    \/ TickStart
    \/ TickEnd
    \/ SetupBegin(Owner)
    \/ SetupCookieReturns(Owner, CookieOutcomes)
    \/ SetupScreenNameReturns(Owner, ScreenNameOutcomes)
    \/ SetupLookupReturns(Owner, LookupOutcomes)
    \/ SetupWebhookReturns(Owner, WebhookOutcomes)
    \/ TrackToggle(Owner)
    \/ \E s \in TickSlots :
         \/ StartRun(s, {"ok"})
         \/ GetUserReturns(s, {FetchOutcome("ok", <<>>)})
         \/ GetTweetsReturns(s, {FetchOutcome("ok", <<>>)})
         \/ Deliver(s, {PostOutcome("response", 204, NoHint)})
         \/ PaceSleepDone(s)
         \/ SeenUpdate(s)

SpecSetup == InitSetup /\ [][NextSetup]_vars

(***************************************************************************)
(* SpecPayload: one tweet of the window with up to MaxMedia media of every *)
(* type, with a URL, with an empty URL and without; every post is         *)
(* answered 204. The URL of the medium at position i is i.                *)
(***************************************************************************)
MediaLists ==
    UNION {[1..n -> MediumTypes \X {"url", "empty", "none"}] : n \in 0..MaxMedia}

MediaOf(list) ==
    [i \in 1..Len(list) |->
       Medium(list[i][1], CASE list[i][2] = "url" -> i
                            [] list[i][2] = "empty" -> EmptyUrl
                            [] OTHER -> NoUrl)]

InitPayload ==
    /\ clock = ClockStart
    /\ tick = [state |-> "Idle", active_tasks |-> {}]
    /\ run = [s \in Slots |-> IdleRun]
    /\ delivered = [t \in Tenants |-> NoneDelivered]
    /\ lastRun = [t \in Tenants |-> NoLastRun]
    /\ setup = [t \in Tenants |-> IdleSetup]
    /\ store = [t \in Tenants |-> IF t = Owner THEN SetupRecord ELSE NoRecord]
    /\ \E list \in MediaLists :
         timeline = <<TweetWithMedia(304, 58, <<"y", "o">>, MediaOf(list))>>

NextPayload ==
    \/ TickStart
    \/ TickEnd
    \/ \E s \in TickSlots :
         \/ StartRun(s, {"ok"})
         \/ GetUserReturns(s, {FetchOutcome("ok", <<>>)})
         \/ GetTweetsReturns(s, {FetchOutcome("ok", <<>>)})
         \/ Deliver(s, {PostOutcome("response", 204, NoHint)})
         \/ PaceSleepDone(s)
         \/ SeenUpdate(s)

SpecPayload == InitPayload /\ [][NextPayload]_vars

(***************************************************************************)
(* SpecStall: SpecConc where the event loop runs every coroutine that is   *)
(* ready. Nothing in the program makes an awaited call of twikit, requests *)
(* or discord return: those answers may never come.                        *)
(***************************************************************************)
SpecStall ==
    /\ InitConc
    /\ [][NextConc]_vars
    /\ WF_vars(TickEnd)
    /\ \A s \in Slots : WF_vars(OwnStep(s))

(***************************************************************************)
(* Properties                                                              *)
(***************************************************************************)

\* C1: when a webhook delivery of a run returned 400, 401 or 404, the run ends
\* with enabled=false in the tenant's file, with exactly one notification
\* attempt, and with no delivery attempt for a later candidate.
C1_EndpointFailureDeactivates ==
    \A s \in Slots :
      LET r == run[s] IN
      (r.pc = "done" /\ r.endpoint_fail_at > 0)
        => /\ ~r.stored.enabled
           /\ r.notified = 1
           /\ Len(r.attempts) = r.endpoint_fail_at

\* C2: every call of notify_user_and_disable that has ended has written
\* enabled=false, whatever fetch_user and send did.
C2_NotifyAlwaysDisables ==
    \A s \in Slots :
      LET r == run[s] IN
      r.pc \notin {"notify_fetch_user", "notify_send"} => r.disables = r.notified

\* C3: under one configuration of a tenant, an id that got a 2xx from the
\* webhook never gets a 2xx again.
C3_NoSecondDelivery ==
    [][\A s \in Slots :
         \A id \in run'[s].newly_posted_ids \ run[s].newly_posted_ids :
            id \notin delivered[s[1]]]_vars

\* the in-window tweets of a run whose text is a RT
InWindowRetweets(r) ==
    LET inside == InWindow(r.tweets, r.time_threshold) IN
    {inside[i] : i \in {j \in 1..Len(inside) : IsRetweet(inside[j].text)}}

C5_SecondRunIdle ==
    [][\A s \in Slots :
         LET t == s[1] IN
         (/\ run[s].pc = "seen_update" /\ run'[s].pc = "done"
          /\ lastRun[t].valid
          /\ lastRun[t].tweets = run[s].tweets)
           => /\ run'[s].attempts = <<>>
              /\ Range(store'[t].seen_tweet_ids) = Range(lastRun[t].seen)]_vars

\* created_at of the fetched tweet with this id
CreatedAt(r, id) ==
    (CHOOSE tw \in Range(r.tweets) : tw.id = id).created_at

\* C6: the posts of a run are made in ascending order of created_at, whatever
\* the order of the fetched tweets.
C6_OldestFirst ==
    \A s \in Slots :
      LET r == run[s] IN
      \A j, k \in 1..Len(r.attempts) :
         j < k => CreatedAt(r, r.attempts[j]) <= CreatedAt(r, r.attempts[k])

C6_Witness ==
    \E s \in Slots :
      LET r == run[s] IN
      /\ Len(r.attempts) = 3
      /\ r.tweets[1].created_at > r.tweets[2].created_at
      /\ r.tweets[2].created_at > r.tweets[3].created_at
      /\ CreatedAt(r, r.attempts[1]) < CreatedAt(r, r.attempts[2])
      /\ CreatedAt(r, r.attempts[2]) < CreatedAt(r, r.attempts[3])

\* C7: after a 429 with hint retry_after the run sleeps at least
\* retry_after + 1 seconds before the one further post; the response of that
\* post is handled as any response is; no candidate is posted more than twice.
C7_OneRetryAfterPause ==
    \A s \in Slots :
      LET r == run[s] IN
      /\ r.posts <= 2
      /\ r.pc = "retry_sleep" => (r.posts = 1 /\ r.sleep >= r.retry_after + 1)
      /\ (r.posts = 2 /\ r.retry_status # 0) =>
            LET id == r.recent_tweets[r.i].id IN
            /\ (200 <= r.retry_status /\ r.retry_status < 300)
                 => (r.pc = "pace_sleep" /\ id \in r.newly_posted_ids)
            /\ r.retry_status \in {400, 401, 404}
                 => (r.pc = "notify_fetch_user" /\ id \notin r.newly_posted_ids)
            /\ r.retry_status \in {429, 500}
                 => (r.pc = "pace_sleep" /\ id \notin r.newly_posted_ids)

C7_Witness ==
    \E s \in Slots :
      LET r == run[s] IN
      /\ r.posts = 2
      /\ r.retry_after = RetryHint
      /\ r.retry_status = 204
      /\ r.recent_tweets[r.i].id \in r.newly_posted_ids

\* C8: from the record of setup_tracking on, the stored seen list of a tenant
\* never holds more than 200 ids.
C8_SeenListCapped ==
    \A t \in Tenants : Len(store[t].seen_tweet_ids) <= 200

C8_Witness ==
    /\ Len(store[Owner].seen_tweet_ids) = 200
    /\ \E s \in Slots :
         /\ run[s].pc = "done" /\ run[s].exit = "seen_update"
         /\ Cardinality(run[s].all_current_ids_in_window \cup run[s].seen_tweet_ids) > 200

\* C9: when the ids of the window and the seen ids the run started with are
\* more than 200 together, the run leaves exactly 200 of them in the store and
\* none that it dropped has a larger number than one that it kept, an id that
\* is no number counting as the lowest.
C9_LargestKept ==
    \A s \in Slots :
      LET r == run[s]
          all == r.all_current_ids_in_window \cup r.seen_tweet_ids
          kept == Range(r.stored.seen_tweet_ids)
      IN  (r.pc = "done" /\ r.exit = "seen_update" /\ Cardinality(all) > 200)
            => /\ kept \subseteq all
               /\ Cardinality(kept) = 200
               /\ Len(r.stored.seen_tweet_ids) = 200
               /\ \A x \in kept : \A y \in all \ kept : SortKey(x) >= SortKey(y)

C9_Witness ==
    \E s \in Slots :
      LET r == run[s]
          all == r.all_current_ids_in_window \cup r.seen_tweet_ids
      IN  /\ r.pc = "done" /\ r.exit = "seen_update"
          /\ Cardinality(all) > 200
          /\ r.saves = 1
          /\ \E y \in all \ Range(r.stored.seen_tweet_ids) : ~IsDigit(y)

\* C10: a run for a record that lacks one of the four required keys leaves
\* enabled=false in the store and makes no decrypt, no twikit call, no post
\* and no notification.
C10_IncompleteRecordOnlyDisabled ==
    \A s \in Slots :
      LET r == run[s] IN
      (/\ r.pc = "done"
       /\ \E k \in {"encrypted_cookies", "target_twitter_id",
                    "webhook_url", "target_screen_name"} : k \notin r.user_data.keys)
        => /\ ~r.stored.enabled
           /\ r.calls = {}
           /\ r.notified = 0
           /\ r.attempts = <<>>

C10_Witness ==
    \E s \in Slots :
      LET r == run[s] IN
      /\ r.pc = "done" /\ r.exit = "incomplete"
      /\ "webhook_url" \notin r.user_data.keys
      /\ r.saves = 1
      /\ ~store[s[1]].enabled

\* C11: a fetched tweet created before now - 30 minutes is not posted by the
\* run and the run does not add its id to the seen ids.
C11_OldItemsUntouched ==
    \A s \in Slots :
      LET r == run[s] IN
      \A tw \in Range(r.tweets) :
         tw.created_at < r.time_threshold
           => /\ tw.id \notin Range(r.attempts)
              /\ tw.id \notin r.all_current_ids_in_window
              /\ (r.pc = "done" /\ r.exit = "seen_update"
                  /\ tw.id \in Range(r.stored.seen_tweet_ids)) => tw.id \in r.seen_tweet_ids

C11_Witness ==
    \E s \in Slots :
      LET r == run[s] IN
      /\ r.pc = "done" /\ r.exit = "seen_update"
      /\ Len(r.tweets) = 3
      /\ r.tweets[3].created_at < r.time_threshold
      /\ r.tweets[3].id \notin r.seen_tweet_ids
      /\ Len(r.attempts) = 2

\* C13: no exception leaves check_tweets_for_user.
C13_NothingEscapes ==
    \A s \in Slots : ~run[s].raised

\* the error text names 401, 403 or authenticate
AuthFlavored(msg) ==
    \E i \in 1..Len(msg) : msg[i] \in {"401", "403", "authenticate", "Authenticate"}

\* the run met a credential failure, a target that is not found, or an
\* authentication error of a twikit call
TerminalFailure(r) ==
    \/ "decrypt" \in r.calls /\ ~DecryptUsable(Decrypt(r.user_data.cookies))
    \/ r.fetch.kind \in {"UserNotFound", "none"}
    \/ r.fetch.kind = "HTTPException" /\ AuthFlavored(r.fetch.msg)

\* C16: a run that met a credential failure, a target not found or an
\* authentication error ends with enabled=false stored, one notification
\* attempt, no post and the seen ids as they were.
C16_TerminalFailureDeactivates ==
    \A s \in Slots :
      LET r == run[s] IN
      (r.pc = "done" /\ TerminalFailure(r))
        => /\ ~r.stored.enabled
           /\ r.notified = 1
           /\ r.attempts = <<>>
           /\ r.stored.seen_tweet_ids = r.user_data.seen_tweet_ids

\* the twikit call failed with an error that is no authentication error and no
\* target not found, or get_user_tweets gave nothing
TransientFailure(r) ==
    \/ r.fetch.kind = "Exception"
    \/ r.fetch.kind = "HTTPException" /\ ~AuthFlavored(r.fetch.msg)
    \/ r.fetch.kind = "ok" /\ r.tweets = <<>>

\* C17: a run whose fetch failed with such an error, or gave nothing, has
\* written nothing to the store, posted nothing and notified nobody.
C17_TransientFailureTouchesNothing ==
    \A s \in Slots :
      LET r == run[s] IN
      (r.pc = "done" /\ TransientFailure(r))
        => /\ r.saves = 0
           /\ r.user_data.enabled
           /\ r.attempts = <<>>
           /\ r.notified = 0
           /\ r.calls \cap {"post", "fetch_user", "send"} = {}

C17_Witness ==
    \E s \in Slots :
      LET r == run[s] IN
      /\ r.pc = "done"
      /\ r.fetch = FetchOutcome("HTTPException", <<"status:", "500">>)
      /\ "get_tweets" \in r.calls
      /\ r.seen_tweet_ids # {}
      /\ r.stored = r.user_data

\* C18: an id that the last run posted without getting a 2xx (and without any
\* 400/401/404) is a candidate of the next run when it is fetched inside the window.
C18_FailedItemIsCandidateAgain ==
    \A s \in Slots :
      LET r == run[s]
          inside == InWindow(r.tweets, r.time_threshold)
      IN  r.pc \in {"deliver", "retry_sleep", "pace_sleep", "seen_update"}
            => \A id \in lastRun[s[1]].failed :
                  (\E k \in 1..Len(inside) : inside[k].id = id)
                    => \E k \in 1..Len(r.recent_tweets) : r.recent_tweets[k].id = id

\* the candidates of the run that were posted or whose loop body raised
TakenUp(r) == Range(r.attempts) \cup r.excepted

\* C19 as stated: after an exception of one candidate the run takes up every
\* later candidate and reaches the seen update.
C19_ExceptionNeverEndsTheRun ==
    \A s \in Slots :
      LET r == run[s] IN
      (r.pc = "done" /\ r.excepted # {})
        => /\ r.exit = "seen_update"
           /\ \A k \in 1..Len(r.recent_tweets) : r.recent_tweets[k].id \in TakenUp(r)

\* C19 amended: after an exception of one candidate the run takes up every
\* later candidate and reaches the seen update, unless a later post is answered
\* 400, 401 or 404 and the deactivation ends the run at that candidate.
C19_ExceptionDoesNotEndTheRun ==
    \A s \in Slots :
      LET r == run[s] IN
      (r.pc = "done" /\ r.excepted # {})
        => \/ /\ r.exit = "seen_update"
              /\ \A k \in 1..Len(r.recent_tweets) : r.recent_tweets[k].id \in TakenUp(r)
           \/ /\ r.exit = "deactivated"
              /\ r.endpoint_fail_at > 0
              /\ r.recent_tweets[r.i].id \notin r.excepted
              /\ \A k \in 1..r.i : r.recent_tweets[k].id \in TakenUp(r)

C19_Witness ==
    \E s \in Slots :
      LET r == run[s] IN
      /\ r.pc = "done" /\ r.exit = "seen_update"
      /\ Len(r.recent_tweets) = 3
      /\ r.recent_tweets[1].id \in r.excepted
      /\ r.recent_tweets[1].id \in Range(r.attempts)
      /\ r.recent_tweets[2].id \in r.excepted \ Range(r.attempts)
      /\ r.recent_tweets[3].id \in r.newly_posted_ids
      /\ r.saves = 1

\* C20: a step of the delivery loop or of the seen update of a run in which no
\* post was answered 400, 401 or 404 leaves the stored enabled flag as it is
\* and notifies nobody.
C20_EnabledLeftAlone ==
    [][\A s \in Slots :
         (/\ run[s].pc \in {"deliver", "retry_sleep", "pace_sleep", "seen_update"}
          /\ run'[s] # run[s]
          /\ run'[s].endpoint_fail_at = 0)
           => /\ store'[s[1]].enabled = store[s[1]].enabled
              /\ run'[s].notified = 0]_vars

\* C12: a tenant never has two runs of check_tweets_for_user in flight.
C12_OneRunPerTenant ==
    \A t \in Tenants :
      Cardinality({s \in Slots : s[1] = t /\ run[s].pc \notin {"idle", "created", "done"}}) <= 1

\* C14: while a tick runs, a task that has not finished can take its next
\* step whatever became of the other tasks, and the tick ends only when every
\* task it launched has finished.
C14_TasksIndependent ==
    /\ [](\A t \in Tenants :
            (tick.state = "Running" /\ t \in tick.active_tasks
             /\ run[<<t, "tick">>].pc # "done")
              => ENABLED (OwnStep(<<t, "tick">>) \/ AnswerStep(<<t, "tick">>)))
    /\ [][(tick.state = "Running" /\ tick'.state = "Idle")
            => \A t \in tick.active_tasks : run[<<t, "tick">>].pc = "done"]_vars

C14_Witness ==
    /\ tick.state = "Running"
    /\ tick.active_tasks = {Owner, Other}
    /\ run[<<Other, "tick">>].pc = "done"
    /\ run[<<Other, "tick">>].raised
    /\ run[<<Owner, "tick">>].pc = "pace_sleep"
    /\ run[<<Owner, "tick">>].newly_posted_ids # {}

\* C15: a tick that has started always comes back to Idle.
C15_TickCompletes ==
    (tick.state = "Running") ~> (tick.state = "Idle")

C23_UserWriteSurvivesRun ==
    [][\A s \in Slots :
         run'[s].saves > run[s].saves
           => /\ store'[s[1]].keys = store[s[1]].keys
              /\ store'[s[1]].cookies = store[s[1]].cookies
              /\ \/ store'[s[1]].enabled = store[s[1]].enabled
                 \/ run'[s].exit \in {"incomplete", "deactivated"}]_vars

\* C24: once a run has saved enabled = false for a tenant, the stored flag
\* stays false until the user sends track_toggle or completes setup: no step
\* of a run turns it back to true.
C24_DeactivationSticks ==
    [][\A t \in Tenants :
         (/\ \E s \in Slots : s[1] = t /\ run[s].exit \in {"incomplete", "deactivated"}
          /\ store[t].file = "ok"
          /\ ~store[t].enabled
          /\ store'[t].enabled)
           => run' = run]_vars

\* C25: after a run that reached the seen update, every id the run recorded
\* in all_current_ids_in_window is in the stored seen ids: the cut to 200
\* drops no id of the window.
C25_WindowIdsKept ==
    \A s \in Slots :
      LET r == run[s] IN
      r.pc = "done" /\ r.exit = "seen_update"
        => r.all_current_ids_in_window \subseteq Range(r.stored.seen_tweet_ids)

\* C26: when the seen update of a run saves the record, the stored seen ids
\* hold no id twice and are in descending order of int(id) (0 for an id that
\* is not a digit string), and the set of the stored ids differs from the
\* set of seen ids the run started from.
C26_SavedSeenListSortedAndNew ==
    [][\A s \in Slots :
         run[s].pc = "seen_update" /\ run'[s].saves > run[s].saves
           => LET l == store'[s[1]].seen_tweet_ids IN
              /\ \A i, j \in 1..Len(l) : i < j => l[i] # l[j] /\ SortKey(l[i]) >= SortKey(l[j])
              /\ Range(l) # Range(run[s].user_data.seen_tweet_ids)]_vars

\* a seen update saved a list that was cut to 200 and ends with an id that is
\* not a digit string
C26_Witness ==
    \E s \in Slots :
      LET r == run[s]
          l == r.stored.seen_tweet_ids
      IN  /\ r.pc = "done" /\ r.exit = "seen_update"
          /\ r.saves = 1
          /\ Len(l) = MAX_SEEN_IDS
          /\ ~IsDigit(l[Len(l)])
          /\ IsDigit(l[1])

\* C27: the setup dialog saves the record once, in its last step, with the
\* four required keys, enabled = true and no seen ids; every other step of
\* the dialog, a return before the end included, leaves the store as it is.
C27_SetupSavesOnceAtEnd ==
    [][\A t \in Tenants :
         setup'[t] # setup[t]
           => IF setup'[t].pc = "idle" /\ setup'[t].exit = "saved"
              THEN /\ setup'[t].saves = 1
                   /\ store'[t].file = "ok"
                   /\ store'[t].keys = RequiredKeys
                   /\ store'[t].cookies = "mapping"
                   /\ store'[t].enabled
                   /\ store'[t].seen_tweet_ids = <<>>
                   /\ \A u \in Tenants \ {t} : store'[u] = store[u]
              ELSE store' = store]_vars

\* a dialog that had the target in its dict ended at the wait for the webhook
\* URL, and the stored record is the one without target it started from
C27_Witness ==
    /\ setup[Owner].pc = "idle"
    /\ setup[Owner].exit = "timeout"
    /\ "target_twitter_id" \in setup[Owner].user_data.keys
    /\ store[Owner] = WebhookOnlyRecord

\* the label of a line of media_links by the type of its medium
KindLabel(type) ==
    CASE type = "video" -> "video" [] type = "animated_gif" -> "GIF" [] OTHER -> "media"

\* the medium has a URL
HasUrl(medium) == medium.media_url > 0

\* the line a medium at position i has when it has one: a link when it has a
\* URL, a text when it has none
ExpectedLine(medium, i) ==
    IF HasUrl(medium)
    THEN MediaLink("link", KindLabel(medium.type), i, medium.media_url)
    ELSE MediaLink("text", KindLabel(medium.type), i, NoUrl)

\* the payload of a delivered tweet has one line for each of these media, in
\* their order, and its image is the first of these photos when there is one
LinesAndImageFor(r, positions, photos) ==
    LET media == r.recent_tweets[r.i].media
    IN  /\ Len(r.payload.media_links) = Len(positions)
        /\ \A k \in 1..Len(positions) :
             k <= Len(r.payload.media_links)
               => r.payload.media_links[k] = ExpectedLine(media[positions[k]], positions[k])
        /\ photos # {} => r.payload.image = media[Least(photos)].media_url

Positions(media) == [i \in 1..Len(media) |-> i]

\* C28 as stated: the payload of every delivered tweet has exactly one line
\* for each medium that is no photo (a link labeled by its type when it has
\* a URL, a text when it has none), and its image is the first photo when
\* the tweet has a photo.
C28_OneLinePerNonPhotoMedium ==
    \A s \in Slots :
      LET r == run[s] IN
      r.pc = "pace_sleep"
        => LET media == r.recent_tweets[r.i].media IN
           LinesAndImageFor(r, SelectSeq(Positions(media),
                                         LAMBDA i : media[i].type # "photo"),
                            {i \in 1..Len(media) : media[i].type = "photo"})

\* C28, amended: one line for each video and each GIF (a link when it has a
\* URL, a text when it has none) and one link for each medium of another
\* type that is no photo and has a URL; such a medium without URL has no
\* line. The image is the first photo that has a URL when the tweet has one.
C28_OneLinePerVideoGifOrLinkedMedium ==
    \A s \in Slots :
      LET r == run[s] IN
      r.pc = "pace_sleep"
        => LET media == r.recent_tweets[r.i].media IN
           LinesAndImageFor(r, SelectSeq(Positions(media),
                                 LAMBDA i : \/ media[i].type \in {"video", "animated_gif"}
                                            \/ /\ media[i].type # "photo"
                                               /\ HasUrl(media[i])),
                            {i \in 1..Len(media) : media[i].type = "photo" /\ HasUrl(media[i])})

\* a tweet was delivered whose media are a medium of unknown type without
\* URL, a photo with a URL and a video without URL
C28_Witness ==
    \E s \in Slots :
      LET r == run[s] IN
      /\ r.pc = "pace_sleep"
      /\ LET media == r.recent_tweets[r.i].media IN
         /\ Len(media) = 3
         /\ media[1] = Medium("unknown", NoUrl)
         /\ media[2] = Medium("photo", 2)
         /\ media[3] = Medium("video", NoUrl)
         /\ Len(r.payload.media_links) = 1
         /\ r.payload.image = 2

============================================================================
